---- MODULE Spec2Model ----
(***************************************************************************)
(* Model of air_download: the download orchestration of                   *)
(* src/air_download/air_download.py (authenticate, search, filter,        *)
(* request archive, poll, stream to file), its output path resolver and   *)
(* its inclusion filter.                                                   *)
(*                                                                         *)
(* Python strings are sequences of one-character strings, so that         *)
(* lower(), strip(), split(","), the substring test and pathlib's suffix  *)
(* and stem are computed rather than assumed.                              *)
(***************************************************************************)
EXTENDS Integers, Sequences, FiniteSets, TLC

\* ------------------------------------------------------------------ bounds
\* longest search result (number of exams returned by the server)
MaxExams == 2
\* most status polls the server answers for one archive job
MaxPolls == 3
\* longest record list given to the inclusion filter on its own
MaxItems == 2
\* longest pattern string given to the inclusion filter on its own
MaxPatLen == 3
MaxCsvLen == 3

\* ------------------------------------------------------------- Python str
\* Python None; no string over one-character strings equals it
None == <<"None">>

\* str.lower() on one character
LowerChar(c) ==
    CASE c = "A" -> "a"
      [] c = "B" -> "b"
      [] c = "I" -> "i"
      [] c = "P" -> "p"
      [] c = "Z" -> "z"
      [] OTHER -> c

\* str.lower()
Lower(s) == [k \in 1..Len(s) |-> LowerChar(s[k])]

\* whitespace as str.strip() understands it
IsSpace(c) == c \in {" ", "\n", "\t"}

RECURSIVE LStrip(_)
LStrip(s) == IF s # <<>> /\ IsSpace(Head(s)) THEN LStrip(Tail(s)) ELSE s

RECURSIVE RStrip(_)
RStrip(s) ==
    IF s # <<>> /\ IsSpace(s[Len(s)]) THEN RStrip(SubSeq(s, 1, Len(s) - 1)) ELSE s

\* str.strip()
Strip(s) == RStrip(LStrip(s))

\* positions of character c in s
Positions(s, c) == {k \in 1..Len(s) : s[k] = c}

Min(S) == CHOOSE x \in S : \A y \in S : x <= y
Max(S) == CHOOSE x \in S : \A y \in S : x >= y

\* str.split(sep) for a one-character separator: "" gives [""]
RECURSIVE Split(_, _)
Split(s, sep) ==
    IF Positions(s, sep) = {}
    THEN <<s>>
    ELSE LET k == Min(Positions(s, sep))
         IN  <<SubSeq(s, 1, k - 1)>> \o Split(SubSeq(s, k + 1, Len(s)), sep)

\* Python `sub in s` for strings
Contains(sub, s) ==
    \E k \in 0..(Len(s) - Len(sub)) : SubSeq(s, k + 1, k + Len(sub)) = sub

\* str.endswith
EndsWith(s, suf) ==
    Len(suf) <= Len(s) /\ SubSeq(s, Len(s) - Len(suf) + 1, Len(s)) = suf

\* decimal digits, for f"{exam_index + 1}"
Digit == <<"0", "1", "2", "3", "4", "5", "6", "7", "8", "9">>

RECURSIVE DecStr(_)
DecStr(n) == IF n < 10 THEN <<Digit[n + 1]>> ELSE DecStr(n \div 10) \o <<Digit[(n % 10) + 1]>>

\* ------------------------------------------------- apply_inclusion_filter
\* Python truthiness of `patterns` / of a field value: None and "" are falsy
Truthy(v) == v # None /\ v # <<>>

\* [p.strip().lower() for p in patterns.split(",")]
PatternList(patterns) ==
    LET parts == Split(patterns, ",")
    IN  [k \in 1..Len(parts) |-> Lower(Strip(parts[k]))]

\* i.get(field_name): None when the key is absent
Get(item, field_name) ==
    IF field_name \in DOMAIN item THEN item[field_name] ELSE None

\* a filter that compares the field value without lowering it
MatchesCaseSensitive(item, field_name, pattern_list) ==
    /\ Truthy(Get(item, field_name))
    /\ \E k \in 1..Len(pattern_list) :
          Contains(pattern_list[k], item[field_name])

\* the condition of the list comprehension, lines 219-223
Matches(item, field_name, pattern_list) ==
    /\ Truthy(Get(item, field_name))
    /\ \E k \in 1..Len(pattern_list) :
          Contains(pattern_list[k], Lower(item[field_name]))

\* an early return taken for None alone
NoPatternsNoneOnly(patterns) == patterns = None

\* the early return of line 214
NoPatterns(patterns) == ~Truthy(patterns)

\* a filter that keeps the first matching record and no other
apply_inclusion_filter_first(items, field_name, patterns) ==
    IF NoPatterns(patterns)
    THEN [exc |-> "none", value |-> items]
    ELSE IF \E k \in 1..Len(items) : field_name \notin DOMAIN items[k]
    THEN [exc |-> "KeyError", value |-> <<>>]
    ELSE LET pattern_list == PatternList(patterns)
             Keep(item) == Matches(item, field_name, pattern_list)
             kept == SelectSeq(items, Keep)
         IN  [exc |-> "none",
              value |-> IF kept = <<>> THEN <<>> ELSE <<kept[1]>>]

\* apply_inclusion_filter: exc is "KeyError" when the print of line 218 reads
\* a record that has no such field, "none" when the function returns value
apply_inclusion_filter(items, field_name, patterns) ==
    IF NoPatterns(patterns)
    THEN [exc |-> "none", value |-> items]
    ELSE IF \E k \in 1..Len(items) : field_name \notin DOMAIN items[k]
    THEN [exc |-> "KeyError", value |-> <<>>]
    ELSE LET pattern_list == PatternList(patterns)
             Keep(item) == Matches(item, field_name, pattern_list)
         IN  [exc |-> "none", value |-> SelectSeq(items, Keep)]

\* ---------------------------------------------------------------- pathlib
\* A path is the sequence of its components; <<>> is the working directory.
Name(p) == p[Len(p)]

Parent(p) == SubSeq(p, 1, Len(p) - 1)

\* PurePath.suffix: name[i:] for i = name.rfind(".") when 0 < i < len(name) - 1
HasSuffix(name) ==
    /\ Positions(name, ".") # {}
    /\ Max(Positions(name, ".")) > 1
    /\ Max(Positions(name, ".")) < Len(name)

Suffix(p) ==
    IF HasSuffix(Name(p))
    THEN SubSeq(Name(p), Max(Positions(Name(p), ".")), Len(Name(p)))
    ELSE <<>>

\* PurePath.stem
Stem(p) ==
    IF HasSuffix(Name(p))
    THEN SubSeq(Name(p), 1, Max(Positions(Name(p), ".")) - 1)
    ELSE Name(p)

\* PurePath.with_name
WithName(p, name) == Parent(p) \o <<name>>

\* p / name, for a name without a separator
Join(p, name) == p \o <<name>>

DotZip == <<".", "z", "i", "p">>

\* p.suffix.lower().endswith(".zip"), lines 186 and 191
IsZipPath(p) == EndsWith(Lower(Suffix(p)), DotZip)

\* -------------------------------------------------------------- filesystem
\* dirs: the directories that exist (the working directory <<>> always does);
\* files: the regular files that exist, as a function path -> content.
IsDir(d, p) == p = <<>> \/ p \in d

\* Path.exists()
Exists(d, f, p) == IsDir(d, p) \/ p \in DOMAIN f

\* the non-empty prefixes of a path: the path and its parents
Prefixes(p) == {SubSeq(p, 1, k) : k \in 1..Len(p)}

\* Path.mkdir(parents=True, exist_ok=True) succeeds unless a regular file is
\* in the way (FileExistsError / NotADirectoryError)
MkdirOk(f, p) == Prefixes(p) \cap DOMAIN f = {}

\* open(path, "wb") and open(path, "a+") succeed when the parent is a
\* directory and the path itself is not one
OpenOk(d, path) == IsDir(d, Parent(path)) /\ ~IsDir(d, path)

\* a function with one more (or one replaced) entry
Put(f, path, content) ==
    [q \in DOMAIN f \cup {path} |-> IF q = path THEN content ELSE f[q]]

\* content of a file nobody wrote during the run
OldContent == <<[kind |-> "old"]>>

\* ------------------------------------------------ _build_exam_output_path
ExamPrefix == <<"e", "x", "a", "m", "_">>

\* exam.get("accessionNumber") or f"exam_{exam_index + 1}", line 189
AccNum(exam, exam_index) ==
    IF Truthy(Get(exam, "accessionNumber"))
    THEN exam["accessionNumber"]
    ELSE ExamPrefix \o DecStr(exam_index + 1)

\* a resolver that never looks whether the archive path exists
build_exam_output_path_unchecked(p, exam, exam_index, exists) ==
    IF ~IsZipPath(p)
    THEN Join(p, AccNum(exam, exam_index) \o DotZip)
    ELSE p

\* the path _build_exam_output_path returns, lines 185-197; exists is
\* p.exists() at the time of the call
build_exam_output_path(p, exam, exam_index, exists) ==
    IF ~IsZipPath(p)
    THEN Join(p, AccNum(exam, exam_index) \o DotZip)
    ELSE IF ~exists /\ IsZipPath(p)
    THEN p
    ELSE WithName(p, Stem(p) \o <<"_">> \o DecStr(exam_index + 1) \o Suffix(p))

\* the directories after the call: line 188 creates p and its parents
build_exam_output_dirs(d, p) == IF ~IsZipPath(p) THEN d \cup Prefixes(p) ELSE d

\* line 188 raises when a regular file is in the way of the directory
build_exam_output_raises(f, p) == ~IsZipPath(p) /\ ~MkdirOk(f, p)

\* =================================================================== state
VARIABLES
    dirs,            \* filesystem: the directories that exist
    files,           \* filesystem: path -> content of the regular files
    fs0,             \* the filesystem as the run found it
    creds,           \* what authenticate finds: credentials or none
    pc,              \* position of the run in the program
    exc,             \* the exception that ended the run, if one did
    args,            \* the parsed command line
    jwt,             \* TRUE once authenticate returned a token
    exams,           \* download: the exams left by the exam filters
    i,               \* download: index of the loop of line 279
    series,          \* download: the filtered series of exam i
    download_info,   \* download: the start response of exam i
    exam_output_fp,  \* download: the path resolved for exam i
    calls,           \* the network calls made for the exam in progress (before
                     \* the loop: since the run began), in order
    called,          \* the endpoints called since the run began
    outcomes,        \* what became of the exams the loop is done with
    paths,           \* the path resolved for each exam the loop reached
    log,             \* the messages printed, in order
    fitems,          \* inclusion filter on its own: the records
    ffield,          \* inclusion filter on its own: the field name
    fpatterns,       \* inclusion filter on its own: the patterns
    fresult,         \* inclusion filter on its own: what it returned
    fmodality,       \* the two exam filters: the modality patterns
    fdescription,    \* the two exam filters: the description patterns
    fboth,           \* the two exam filters: what they return in each order
    accession_list,  \* wrapper: the accession numbers to launch for
    launched         \* wrapper: the commands launched, in order

fsVars == <<dirs, files, fs0>>
loopVars == <<exams, i, series, download_info, exam_output_fp>>
histVars == <<calls, called, outcomes, paths, log>>
filterVars == <<fitems, ffield, fpatterns, fresult, fmodality, fdescription,
                fboth>>
wrapVars == <<accession_list, launched>>
vars == <<dirs, files, fs0, creds, pc, exc, args, jwt, exams, i, series,
          download_info, exam_output_fp, calls, called, outcomes, paths, log,
          fitems, ffield, fpatterns, fresult, fmodality, fdescription, fboth,
          accession_list, launched>>

\* ------------------------------------------------------------------ inputs
NameO == <<"o">>
NameAZip == <<"a", ".", "z", "i", "p">>
NameAZIP == <<"a", ".", "Z", "I", "P">>
AccessionsCsv ==
    <<"a", "c", "c", "e", "s", "s", "i", "o", "n", "s", ".", "c", "s", "v">>

\* --output not given: Python None where a path is expected
NoPath == <<None>>

\* values of --output: none given, a directory name, archive names, a name
\* that is all suffix, and an archive name inside a directory
Outputs ==
    {NoPath, <<NameO>>, <<NameAZip>>, <<NameAZIP>>, <<DotZip>>,
     <<NameO, NameAZip>>}

NoFiles == [q \in {} |-> OldContent]

DirO == [dirs |-> {<<NameO>>}, files |-> NoFiles]
EmptyFs == [dirs |-> {}, files |-> NoFiles]

\* the filesystem the run starts in, at and below the output path: nothing
\* there, a directory (empty, or holding accessions.csv and A.zip), or a
\* regular file
Filesystems(output) ==
    IF output = <<NameO>>
    THEN { EmptyFs, DirO,
           [dirs |-> {<<NameO>>},
            files |-> Put(Put(NoFiles, <<NameO, AccessionsCsv>>, OldContent),
                          <<NameO, <<"A", ".", "z", "i", "p">> >>, OldContent)],
           [dirs |-> {}, files |-> Put(NoFiles, <<NameO>>, OldContent)] }
    ELSE IF output = <<NameAZip>>
    THEN { EmptyFs, [dirs |-> {}, files |-> Put(NoFiles, <<NameAZip>>, OldContent)] }
    ELSE IF output = <<NameO, NameAZip>>
    THEN { EmptyFs, DirO }
    ELSE { EmptyFs }

Credentials == {"ok", "nofile", "noenv"}

Exam(acc, modality, description) ==
    [accessionNumber |-> acc, modality |-> modality, description |-> description]

\* exams the server can return: two with the same accession number and one
\* without an accession number
ExamPool ==
    { Exam(<<"A">>, <<"A">>, <<"a">>),
      Exam(<<"A">>, <<"b">>, <<"b">>),
      Exam(<<>>, <<"A">>, <<"b">>) }

SeqsUpTo(S, n) == UNION {[1..k -> S] : k \in 0..n}

SearchResults == SeqsUpTo(ExamPool, MaxExams)

ExamModalityInclusions == {None, <<"a">>}
ExamDescriptionInclusions == {None, <<"b">>}
SeriesInclusions == {None, <<"a">>}

SeriesA == [description |-> <<"a">>]
SeriesB == [description |-> <<"B">>]
SeriesResults == {<<>>, <<SeriesB>>, <<SeriesA, SeriesB>>}

Project == <<"p", "r", "o", "j", "e", "c", "t">>
Profile == <<"p", "r", "o", "f", "i", "l", "e">>

\* start responses: a job identifier, or a refusal with a reason
StartResults ==
    { [downloadId |-> <<"7">>],
      [reason |-> Project],
      [reason |-> Profile],
      [reason |-> Profile \o <<" ">> \o Project],
      [reason |-> <<"x">>] }

Statuses == {"pending", "started", "completed", "failed"}

\* a network call either returns or raises
Ok == "ok"
Fails == "RequestException"

NoExc == [type |-> "none", at |-> "none"]
NoArgs ==
    [acc |-> None, mrn |-> None, output |-> NoPath, series_inclusion |-> None,
     only_return_accessions |-> FALSE, list_projects |-> FALSE,
     list_profiles |-> FALSE]

Call(ep, resp) == [ep |-> ep, resp |-> resp]

\* what became of an exam the loop is done with, and the endpoints called
\* for it
Outcome(result, eps) == [result |-> result, eps |-> eps]

\* command lines: the identifiers given, the output, the series filter and
\* the mode flags
Idents ==
    { [acc |-> None, mrn |-> None],
      [acc |-> <<>>, mrn |-> None],
      [acc |-> <<"A">>, mrn |-> None],
      [acc |-> None, mrn |-> <<"P">>] }

CommandLines ==
    { [acc |-> id.acc, mrn |-> id.mrn, output |-> o, series_inclusion |-> s,
       only_return_accessions |-> only, list_projects |-> lpj,
       list_profiles |-> lpf] :
        id \in Idents, o \in Outputs, s \in SeriesInclusions,
        only \in BOOLEAN, lpj \in BOOLEAN, lpf \in BOOLEAN }

\* ==================================================================== run
NoInfo == [none |-> TRUE]

\* nothing has returned yet
NoResult == [exc |-> "none", value |-> <<>>]

\* the two exam filters are not run on their own
NoPair ==
    /\ fmodality = None
    /\ fdescription = None
    /\ fboth = [md |-> NoResult, dm |-> NoResult]

\* the wrapper is not run
NoWrapper ==
    /\ accession_list = <<>>
    /\ launched = <<>>

Init ==
    /\ args \in CommandLines
    /\ fs0 \in Filesystems(args.output)
    /\ dirs = fs0.dirs
    /\ files = fs0.files
    /\ creds \in Credentials
    /\ pc = "parse_args"
    /\ exc = NoExc
    /\ jwt = FALSE
    /\ exams = <<>>
    /\ i = 0
    /\ series = <<>>
    /\ download_info = NoInfo
    /\ exam_output_fp = <<>>
    /\ calls = <<>>
    /\ called = {}
    /\ outcomes = <<>>
    /\ paths = <<>>
    /\ log = <<>>
    /\ fitems = <<>>
    /\ ffield = "description"
    /\ fpatterns = None
    /\ fresult = [exc |-> "none", value |-> <<>>]
    /\ NoPair
    /\ NoWrapper

\* an exception nobody catches ends the run
Raise(type, at) == pc' = "raised" /\ exc' = [type |-> type, at |-> at]

\* a parser that accepts every command line
ParseArgsUnchecked ==
    /\ pc = "parse_args"
    /\ pc' = "main"
    /\ UNCHANGED <<fsVars, creds, exc, args, jwt, loopVars, histVars,
                   filterVars, wrapVars>>

\* parse_args, lines 91-96: a download needs an accession number or an MRN
ParseArgs ==
    /\ pc = "parse_args"
    /\ IF ~(args.list_projects \/ args.list_profiles)
          /\ ~Truthy(args.acc) /\ ~Truthy(args.mrn)
       THEN Raise("ValueError", "parse_args")
       ELSE pc' = "main" /\ exc' = exc
    /\ UNCHANGED <<fsVars, creds, args, jwt, loopVars, histVars, filterVars, wrapVars>>

\* authenticate, lines 99-117: what it can do given the credentials. made is
\* the calls it makes, exc the exception it raises ("none": it returns)
authenticate ==
    IF creds # "ok"
    THEN {[made |-> <<>>, exc |-> "AssertionError"]}
    ELSE {[made |-> <<Call("login", r)>>,
           exc |-> CASE r = "token" -> "none"
                     [] r = "notoken" -> "KeyError"
                     [] OTHER -> Fails] : r \in {"token", "notoken", "error"}}

\* list_projects, lines 143-153: authenticate, then print
list_projects == authenticate

\* list_profiles / get_deid_profiles, lines 120-140 and 156-168:
\* authenticate, then the list-profiles call
list_profiles ==
    {a \in authenticate : a.exc # "none"}
    \cup {[made |-> a.made \o <<Call("list-profiles", r)>>,
           exc |-> IF r = Ok THEN "none" ELSE Fails] :
            a \in {b \in authenticate : b.exc = "none"}, r \in {Ok, "error"}}

\* the endpoints of a sequence of calls
Endpoints(cs) == {cs[k].ep : k \in 1..Len(cs)}

\* main, lines 364-371: the listing modes
MainList ==
    /\ pc = "main"
    /\ args.list_projects \/ args.list_profiles
    /\ \E a \in list_projects, b \in list_profiles :
         LET first == IF args.list_projects THEN a ELSE b
             both == args.list_projects /\ args.list_profiles
                     /\ first.exc = "none"
             made == IF both THEN first.made \o b.made ELSE first.made
             err == IF both THEN b.exc ELSE first.exc
         IN  /\ calls' = calls \o made
             /\ called' = called \cup Endpoints(made)
             /\ IF err = "none"
                THEN pc' = "done" /\ exc' = exc
                ELSE Raise(err, "main")
    /\ UNCHANGED <<fsVars, creds, args, jwt, loopVars, outcomes, paths, log,
                   filterVars, wrapVars>>

\* a download that goes on to search when authenticate has failed
AuthenticateGoesOn ==
    /\ pc = "main"
    /\ ~(args.list_projects \/ args.list_profiles)
    /\ \E a \in authenticate :
         /\ calls' = calls \o a.made
         /\ called' = called \cup Endpoints(a.made)
         /\ jwt' = (a.exc = "none")
         /\ pc' = "search"
         /\ exc' = exc
    /\ UNCHANGED <<fsVars, creds, args, loopVars, outcomes, paths, log,
                   filterVars, wrapVars>>

\* main, lines 372-385, and download, lines 244-245: authenticate
Authenticate ==
    /\ pc = "main"
    /\ ~(args.list_projects \/ args.list_profiles)
    /\ \E a \in authenticate :
         /\ calls' = calls \o a.made
         /\ called' = called \cup Endpoints(a.made)
         /\ IF a.exc = "none"
            THEN jwt' = TRUE /\ pc' = "search" /\ exc' = exc
            ELSE jwt' = jwt /\ Raise(a.exc, "authenticate")
    /\ UNCHANGED <<fsVars, creds, args, loopVars, outcomes, paths, log,
                   filterVars, wrapVars>>

\* what apply_inclusion_filter prints, lines 218 and 224-226
FilterLog(field_name, patterns) ==
    IF NoPatterns(patterns)
    THEN <<>>
    ELSE <<"available " \o field_name, field_name \o " filter">>

\* a search that goes on with an empty list of exams
SearchNoEmptyTest ==
    /\ pc = "search"
    /\ called' = called \cup {"query-data-source"}
    /\ \/ /\ calls' = Append(calls, Call("query-data-source", "error"))
          /\ Raise(Fails, "search")
          /\ UNCHANGED <<exams, log>>
       \/ \E found \in SearchResults,
             exam_modality_inclusion \in ExamModalityInclusions,
             exam_description_inclusion \in ExamDescriptionInclusions :
            LET byModality ==
                    apply_inclusion_filter(found, "modality",
                                           exam_modality_inclusion).value
                byDescription ==
                    apply_inclusion_filter(byModality, "description",
                                           exam_description_inclusion).value
                printed ==
                    FilterLog("modality", exam_modality_inclusion)
                    \o FilterLog("description", exam_description_inclusion)
            IN  /\ calls' = Append(calls, Call("query-data-source", Ok))
                /\ exams' = byDescription
                /\ exc' = exc
                /\ log' = log \o printed
                /\ pc' = IF args.only_return_accessions
                         THEN "accessions" ELSE "loop"
    /\ UNCHANGED <<fsVars, creds, args, jwt, i, series, download_info,
                   exam_output_fp, outcomes, paths, filterVars, wrapVars>>

\* download, lines 247-266: the search call, the two exam filters and the
\* test for an empty result. The exam filters are read here and nowhere
\* else, so they are drawn here.
Search ==
    /\ pc = "search"
    /\ called' = called \cup {"query-data-source"}
    /\ \/ /\ calls' = Append(calls, Call("query-data-source", "error"))
          /\ Raise(Fails, "search")
          /\ UNCHANGED <<exams, log>>
       \/ \E found \in SearchResults,
             exam_modality_inclusion \in ExamModalityInclusions,
             exam_description_inclusion \in ExamDescriptionInclusions :
            LET byModality ==
                    apply_inclusion_filter(found, "modality",
                                           exam_modality_inclusion).value
                byDescription ==
                    apply_inclusion_filter(byModality, "description",
                                           exam_description_inclusion).value
                printed ==
                    FilterLog("modality", exam_modality_inclusion)
                    \o FilterLog("description", exam_description_inclusion)
            IN  /\ calls' = Append(calls, Call("query-data-source", Ok))
                /\ exams' = byDescription
                /\ exc' = exc
                /\ IF Len(byDescription) = 0
                   THEN pc' = "done" /\ log' = log \o printed \o <<"no exams">>
                   ELSE /\ log' = log \o printed
                        /\ pc' = IF args.only_return_accessions
                                 THEN "accessions" ELSE "loop"
    /\ UNCHANGED <<fsVars, creds, args, jwt, i, series, download_info,
                   exam_output_fp, outcomes, paths, filterVars, wrapVars>>

\* one line of accessions.csv, line 274
CsvLine(exam) == [kind |-> "csv", mrn |-> args.mrn, exam |-> exam]

\* download, lines 268-277: the accessions-only mode
WriteAccessions ==
    /\ pc = "accessions"
    /\ IF args.output = NoPath
       THEN /\ Raise("TypeError", "accessions")
            /\ UNCHANGED <<files, log>>
       ELSE LET output_csv == Join(args.output, AccessionsCsv)
                before == IF output_csv \in DOMAIN files
                          THEN files[output_csv] ELSE <<>>
                lines == [k \in 1..Len(exams) |-> CsvLine(exams[k])]
            IN  IF ~OpenOk(dirs, output_csv)
                THEN /\ Raise("OSError", "accessions")
                     /\ log' = Append(log, "writing accessions")
                     /\ files' = files
                ELSE /\ files' = Put(files, output_csv, before \o lines)
                     /\ log' = log \o <<"writing accessions", "accessions written">>
                     /\ pc' = "done"
                     /\ exc' = exc
    /\ UNCHANGED <<dirs, fs0, creds, args, jwt, loopVars, calls, called,
                   outcomes, paths, filterVars, wrapVars>>

\* a loop head that goes on to the start call with no series left
FetchSeriesNoSkip ==
    /\ pc = "loop"
    /\ i < Len(exams)
    /\ IF args.output = NoPath
       THEN /\ Raise("AttributeError", "build_path")
            /\ UNCHANGED <<dirs, i, series, exam_output_fp, calls, called,
                           outcomes, paths, log>>
       ELSE IF build_exam_output_raises(files, args.output)
       THEN /\ Raise("FileExistsError", "build_path")
            /\ UNCHANGED <<dirs, i, series, exam_output_fp, calls, called,
                           outcomes, paths, log>>
       ELSE LET fp == build_exam_output_path(args.output, exams[i + 1], i,
                         Exists(dirs, files, args.output))
            IN  /\ dirs' = build_exam_output_dirs(dirs, args.output)
                /\ exam_output_fp' = fp
                /\ paths' = Append(paths, fp)
                /\ called' = called \cup {"series"}
                /\ \/ /\ calls' = <<Call("series", "error")>>
                      /\ Raise(Fails, "series")
                      /\ UNCHANGED <<i, series, outcomes, log>>
                   \/ \E got \in SeriesResults :
                        LET kept == apply_inclusion_filter(got, "description",
                                        args.series_inclusion).value
                            printed ==
                                FilterLog("description", args.series_inclusion)
                        IN  /\ calls' = <<Call("series", Ok)>>
                            /\ series' = kept
                            /\ exc' = exc
                            /\ log' = log \o printed
                            /\ outcomes' = outcomes
                            /\ i' = i
                            /\ pc' = "start"
    /\ UNCHANGED <<files, fs0, creds, args, jwt, exams, download_info,
                   filterVars, wrapVars>>

\* download, lines 279-294: resolve the output path of exam i, fetch its
\* series, filter them, and skip the exam when none is left
FetchSeries ==
    /\ pc = "loop"
    /\ i < Len(exams)
    /\ IF args.output = NoPath
       THEN /\ Raise("AttributeError", "build_path")
            /\ UNCHANGED <<dirs, i, series, exam_output_fp, calls, called,
                           outcomes, paths, log>>
       ELSE IF build_exam_output_raises(files, args.output)
       THEN /\ Raise("FileExistsError", "build_path")
            /\ UNCHANGED <<dirs, i, series, exam_output_fp, calls, called,
                           outcomes, paths, log>>
       ELSE LET fp == build_exam_output_path(args.output, exams[i + 1], i,
                         Exists(dirs, files, args.output))
            IN  /\ dirs' = build_exam_output_dirs(dirs, args.output)
                /\ exam_output_fp' = fp
                /\ paths' = Append(paths, fp)
                /\ called' = called \cup {"series"}
                /\ \/ /\ calls' = <<Call("series", "error")>>
                      /\ Raise(Fails, "series")
                      /\ UNCHANGED <<i, series, outcomes, log>>
                   \/ \E got \in SeriesResults :
                        LET kept == apply_inclusion_filter(got, "description",
                                        args.series_inclusion).value
                            printed ==
                                FilterLog("description", args.series_inclusion)
                        IN  /\ calls' = IF Len(kept) = 0
                                         THEN <<>> ELSE <<Call("series", Ok)>>
                            /\ series' = kept
                            /\ exc' = exc
                            /\ IF Len(kept) = 0
                               THEN /\ log' = log \o printed \o <<"no series">>
                                    /\ outcomes' = Append(outcomes,
                                           Outcome("skipped", {"series"}))
                                    /\ i' = i + 1
                                    /\ pc' = "loop"
                               ELSE /\ log' = log \o printed
                                    /\ outcomes' = outcomes
                                    /\ i' = i
                                    /\ pc' = "start"
    /\ UNCHANGED <<files, fs0, creds, args, jwt, exams, download_info,
                   filterVars, wrapVars>>

\* download, line 279: the loop is over
LoopEnd ==
    /\ pc = "loop"
    /\ i = Len(exams)
    /\ pc' = "done"
    /\ UNCHANGED <<fsVars, creds, exc, args, jwt, loopVars, histVars, filterVars, wrapVars>>

\* download, lines 314-325: the start call
StartDownload ==
    /\ pc = "start"
    /\ called' = called \cup {"start"}
    /\ \/ /\ calls' = Append(calls, Call("start", "error"))
          /\ Raise(Fails, "start")
          /\ download_info' = download_info
       \/ \E info \in StartResults :
            /\ calls' = Append(calls,
                    Call("start", IF "downloadId" \in DOMAIN info
                                  THEN "downloadId" ELSE "reason"))
            /\ download_info' = info
            /\ pc' = "has_started"
            /\ exc' = exc
    /\ UNCHANGED <<fsVars, creds, args, jwt, exams, i, series, exam_output_fp,
                   outcomes, paths, log, filterVars, wrapVars>>

\* has_started, lines 298-305: the listing a refusal leads to, chosen by the
\* reason text
Diagnostic(reason) ==
    IF Contains(Project, reason) THEN "projects"
    ELSE IF Contains(Profile, reason) THEN "profiles"
    ELSE "unknown"

\* has_started, lines 297-306: the start response has no job identifier
HasStartedRefused ==
    /\ pc = "has_started"
    /\ "downloadId" \notin DOMAIN download_info
    /\ LET which == Diagnostic(download_info["reason"])
           runs == CASE which = "projects" -> list_projects
                     [] which = "profiles" -> list_profiles
                     [] OTHER -> {[made |-> <<>>, exc |-> "none"]}
       IN  \E d \in runs :
             /\ calls' = calls \o d.made
             /\ called' = called \cup Endpoints(d.made)
             /\ log' = Append(log, "invalid " \o which)
             /\ Raise(IF d.exc = "none" THEN "RuntimeError" ELSE d.exc,
                      "has_started")
    /\ UNCHANGED <<fsVars, creds, args, jwt, loopVars, outcomes, paths,
                   filterVars, wrapVars>>

\* the status polls made for the current job
Polls(cs) == SelectSeq(cs, LAMBDA c : c.ep = "check")

\* a readiness test that waits for the job to complete
ReadyCompletedOnly(status) == status = "completed"

\* has_started, line 312: the job is ready to be streamed
Ready(status) == status \in {"started", "completed"}

\* has_started, lines 307-312, and the loop of lines 327-328: one status
\* poll; the loop sleeps and polls again unless the job is ready
HasStartedPoll ==
    /\ pc = "has_started"
    /\ "downloadId" \in DOMAIN download_info
    /\ Len(Polls(calls)) < MaxPolls
    /\ called' = called \cup {"check"}
    /\ \/ /\ calls' = Append(calls, Call("check", "error"))
          /\ Raise(Fails, "check")
       \/ \E status \in Statuses :
            /\ calls' = Append(calls, Call("check", status))
            /\ pc' = IF Ready(status) THEN "stream" ELSE "has_started"
            /\ exc' = exc
    /\ UNCHANGED <<fsVars, creds, args, jwt, loopVars, outcomes, paths, log,
                   filterVars, wrapVars>>

\* a stream call made with the output file already opened for writing
StreamIntoOpenFile ==
    /\ pc = "stream"
    /\ called' = called \cup {"zip"}
    /\ files' = IF OpenOk(dirs, exam_output_fp)
                THEN Put(files, exam_output_fp, <<>>) ELSE files
    /\ \/ /\ calls' = Append(calls, Call("zip", "error"))
          /\ Raise(Fails, "zip")
       \/ /\ calls' = Append(calls, Call("zip", Ok))
          /\ pc' = "write"
          /\ exc' = exc
    /\ UNCHANGED <<dirs, fs0, creds, args, jwt, loopVars, outcomes, paths, log,
                   filterVars, wrapVars>>

\* download, lines 330-344: the stream call
Stream ==
    /\ pc = "stream"
    /\ called' = called \cup {"zip"}
    /\ \/ /\ calls' = Append(calls, Call("zip", "error"))
          /\ Raise(Fails, "zip")
       \/ /\ calls' = Append(calls, Call("zip", Ok))
          /\ pc' = "write"
          /\ exc' = exc
    /\ UNCHANGED <<fsVars, creds, args, jwt, loopVars, outcomes, paths, log,
                   filterVars, wrapVars>>

\* what exam number k's archive holds once it is written in full
Archive(k) == <<[kind |-> "chunk", exam |-> k]>>

\* download, lines 346-360: open the output file and write the chunks; the
\* stream can break after the file was opened
WriteFile ==
    /\ pc = "write"
    /\ IF ~OpenOk(dirs, exam_output_fp)
       THEN /\ Raise("OSError", "open")
            /\ UNCHANGED <<files, i, outcomes, calls>>
       ELSE \/ /\ files' = Put(files, exam_output_fp, <<>>)
               /\ Raise(Fails, "iter_content")
               /\ UNCHANGED <<i, outcomes, calls>>
            \/ /\ files' = Put(files, exam_output_fp, Archive(i + 1))
               /\ calls' = <<>>
               /\ outcomes' = Append(outcomes,
                      Outcome("written", Endpoints(calls)))
               /\ i' = i + 1
               /\ pc' = "loop"
               /\ exc' = exc
    /\ UNCHANGED <<dirs, fs0, creds, args, jwt, exams, series, download_info,
                   exam_output_fp, called, paths, log, filterVars, wrapVars>>

Next ==
    \/ ParseArgs
    \/ MainList
    \/ Authenticate
    \/ Search
    \/ WriteAccessions
    \/ FetchSeries
    \/ LoopEnd
    \/ StartDownload
    \/ HasStartedRefused
    \/ HasStartedPoll
    \/ Stream
    \/ WriteFile

Spec == Init /\ [][Next]_vars

\* ============================================= the inclusion filter alone
\* field values: None, the empty string, and strings in either case
FieldValues == {None, <<>>, <<"A">>, <<"a", "b">>}

\* records: one per description value, and one that has no description
FilterItems ==
    {[description |-> v] : v \in FieldValues} \cup {[modality |-> <<"a">>]}

FilterFields == {"description", "modality"}

PatternChars == {"a", "B", ",", " "}

\* pattern strings: None and every string over PatternChars up to MaxPatLen
FilterPatterns == {None} \cup SeqsUpTo(PatternChars, MaxPatLen)

InitFilter ==
    /\ fitems \in SeqsUpTo(FilterItems, MaxItems)
    /\ ffield \in FilterFields
    /\ fpatterns \in FilterPatterns
    /\ fresult = [exc |-> "none", value |-> <<>>]
    /\ NoPair
    /\ NoWrapper
    /\ pc = "filter"
    /\ args = NoArgs
    /\ fs0 = EmptyFs
    /\ dirs = fs0.dirs
    /\ files = fs0.files
    /\ creds = "ok"
    /\ exc = NoExc
    /\ jwt = FALSE
    /\ exams = <<>>
    /\ i = 0
    /\ series = <<>>
    /\ download_info = NoInfo
    /\ exam_output_fp = <<>>
    /\ calls = <<>>
    /\ called = {}
    /\ outcomes = <<>>
    /\ paths = <<>>
    /\ log = <<>>

\* one call of apply_inclusion_filter, lines 200-227
ApplyFilter ==
    /\ pc = "filter"
    /\ fresult' = apply_inclusion_filter(fitems, ffield, fpatterns)
    /\ log' = IF fresult'.exc = "none"
              THEN log \o FilterLog(ffield, fpatterns)
              ELSE log
    /\ pc' = "filtered"
    /\ UNCHANGED <<fsVars, creds, exc, args, jwt, loopVars, calls, called,
                   outcomes, paths, fitems, ffield, fpatterns, fmodality,
                   fdescription, fboth, wrapVars>>

NextFilter == ApplyFilter

SpecFilter == InitFilter /\ [][NextFilter]_vars

\* ================================================ the two exam filters alone
\* download, lines 261-262: two filters, one after the other; an exception
\* of the first ends the sequence
FilterThen(items, field1, patterns1, field2, patterns2) ==
    LET first == apply_inclusion_filter(items, field1, patterns1)
    IN  IF first.exc # "none"
        THEN first
        ELSE apply_inclusion_filter(first.value, field2, patterns2)

\* exam records: modality and description over a few values each, one
\* record without modality and one without description
PairItems ==
    {[modality |-> m, description |-> d] :
        m \in {None, <<"A">>, <<"b">>}, d \in {<<>>, <<"A">>, <<"a", "b">>}}
    \cup {[description |-> <<"A">>], [modality |-> <<"b">>]}

PairPatterns == {None, <<"a">>, <<"B">>, <<"a", ",", "B">>}

InitExamFilters ==
    /\ fitems \in SeqsUpTo(PairItems, MaxItems)
    /\ fmodality \in PairPatterns
    /\ fdescription \in PairPatterns
    /\ fboth = [md |-> NoResult, dm |-> NoResult]
    /\ ffield = "description"
    /\ fpatterns = None
    /\ fresult = NoResult
    /\ NoWrapper
    /\ pc = "exam_filters"
    /\ args = NoArgs
    /\ fs0 = EmptyFs
    /\ dirs = fs0.dirs
    /\ files = fs0.files
    /\ creds = "ok"
    /\ exc = NoExc
    /\ jwt = FALSE
    /\ exams = <<>>
    /\ i = 0
    /\ series = <<>>
    /\ download_info = NoInfo
    /\ exam_output_fp = <<>>
    /\ calls = <<>>
    /\ called = {}
    /\ outcomes = <<>>
    /\ paths = <<>>
    /\ log = <<>>

\* the two exam filters in the order of lines 261-262 (md) and in the
\* opposite order (dm)
ApplyExamFilters ==
    /\ pc = "exam_filters"
    /\ fboth' = [md |-> FilterThen(fitems, "modality", fmodality,
                                   "description", fdescription),
                 dm |-> FilterThen(fitems, "description", fdescription,
                                   "modality", fmodality)]
    /\ pc' = "exam_filtered"
    /\ UNCHANGED <<fsVars, creds, exc, args, jwt, loopVars, histVars, fitems,
                   ffield, fpatterns, fresult, fmodality, fdescription,
                   wrapVars>>

NextExamFilters == ApplyExamFilters

SpecExamFilters == InitExamFilters /\ [][NextExamFilters]_vars

\* ============================================================= the wrapper
\* run_air_download.py: the command line of the wrapper names an accession
\* number, or a file of accession numbers, one per line
WrapperAccessions == {<<"l">>, <<"A">>}

\* the text of such a file
CsvTexts == SeqsUpTo({"A", "B", "\n"}, MaxCsvLen)

\* Path(args.accession)
AccessionCsv == <<args.accession>>

InitWrapper ==
    /\ args \in [accession : WrapperAccessions, output : {<<NameO>>}]
    /\ \/ fs0 = EmptyFs
       \/ \E text \in CsvTexts :
             fs0 = [dirs |-> {}, files |-> (<<args.accession>> :> text)]
    /\ dirs = fs0.dirs
    /\ files = fs0.files
    /\ accession_list = <<>>
    /\ launched = <<>>
    /\ pc = "run_container"
    /\ fitems = <<>>
    /\ ffield = "description"
    /\ fpatterns = None
    /\ fresult = NoResult
    /\ NoPair
    /\ creds = "ok"
    /\ exc = NoExc
    /\ jwt = FALSE
    /\ exams = <<>>
    /\ i = 0
    /\ series = <<>>
    /\ download_info = NoInfo
    /\ exam_output_fp = <<>>
    /\ calls = <<>>
    /\ called = {}
    /\ outcomes = <<>>
    /\ paths = <<>>
    /\ log = <<>>

\* run_container, lines 147-151: the list of accession numbers
ReadAccessions ==
    /\ pc = "run_container"
    /\ accession_list' =
          IF AccessionCsv \in DOMAIN files
          THEN Split(Strip(files[AccessionCsv]), "\n")
          ELSE <<args.accession>>
    /\ pc' = "launch"
    /\ UNCHANGED <<fsVars, creds, exc, args, jwt, loopVars, histVars,
                   filterVars, launched>>

\* run_container, lines 156-169: the command of one launch; its accession
\* argument is args.accession
Command == [accession |-> args.accession, output |-> args.output]

\* run_container, lines 155-181: one turn of the loop over accession_list
Launch ==
    /\ pc = "launch"
    /\ Len(launched) < Len(accession_list)
    /\ launched' = Append(launched, Command)
    /\ UNCHANGED <<fsVars, creds, pc, exc, args, jwt, loopVars, histVars,
                   filterVars, accession_list>>

\* run_container, line 155: the loop is over
WrapperEnd ==
    /\ pc = "launch"
    /\ Len(launched) = Len(accession_list)
    /\ pc' = "wrapped"
    /\ UNCHANGED <<fsVars, creds, exc, args, jwt, loopVars, histVars,
                   filterVars, wrapVars>>

NextWrapper ==
    \/ ReadAccessions
    \/ Launch
    \/ WrapperEnd

SpecWrapper == InitWrapper /\ [][NextWrapper]_vars

\* ================================================================== claims
\* res is items with some records left out, the rest in the same order
IsSubList(res, items) ==
    \E f \in [1..Len(res) -> 1..Len(items)] :
        /\ \A k \in 1..Len(res) : items[f[k]] = res[k]
        /\ \A j, k \in 1..Len(res) : j < k => f[j] < f[k]

\* val contains pat as a substring when case is ignored
ContainsIgnoringCase(pat, val) == Contains(Lower(pat), Lower(val))

\* the patterns of a comma-separated pattern string, as written
WrittenPatterns(patterns) ==
    {Split(patterns, ",")[k] : k \in 1..Len(Split(patterns, ","))}

\* the patterns of a comma-separated pattern string, each without the
\* whitespace around it
TrimmedPatterns(patterns) == {Strip(pat) : pat \in WrittenPatterns(patterns)}

\* the field of a record holds a string
HasString(item, field_name) ==
    field_name \in DOMAIN item /\ item[field_name] # None

FilterCalled == pc = "filtered"

\* C8 as stated: for a non-empty pattern string the filter returns a
\* sub-list, every record it keeps has a non-empty field value that contains
\* one of the patterns (case ignored), and it keeps every record whose field
\* value contains one of the patterns.
C8_FilterKeepsExactlyMatches ==
    (FilterCalled /\ Truthy(fpatterns)) =>
        /\ fresult.exc = "none"
        /\ IsSubList(fresult.value, fitems)
        /\ \A k \in 1..Len(fresult.value) :
              /\ HasString(fresult.value[k], ffield)
              /\ fresult.value[k][ffield] # <<>>
              /\ \E pat \in WrittenPatterns(fpatterns) :
                    ContainsIgnoringCase(pat, fresult.value[k][ffield])
        /\ \A k \in 1..Len(fitems) :
              (/\ HasString(fitems[k], ffield)
               /\ \E pat \in WrittenPatterns(fpatterns) :
                     ContainsIgnoringCase(pat, fitems[k][ffield]))
              => \E j \in 1..Len(fresult.value) : fresult.value[j] = fitems[k]

\* every record of the list has the field
AllHaveField == \A k \in 1..Len(fitems) : ffield \in DOMAIN fitems[k]

\* C8 as amended: for a non-empty pattern string, when every record has the
\* field the filter returns a sub-list that holds exactly the records whose
\* field value is a non-empty string containing (case ignored) one of the
\* patterns stripped of the whitespace around it; when a record lacks the
\* field the call raises KeyError.
C8_FilterKeepsTrimmedMatches ==
    (FilterCalled /\ Truthy(fpatterns)) =>
      IF ~AllHaveField THEN fresult.exc = "KeyError" ELSE
        /\ fresult.exc = "none"
        /\ IsSubList(fresult.value, fitems)
        /\ \A k \in 1..Len(fitems) :
              (\E j \in 1..Len(fresult.value) : fresult.value[j] = fitems[k])
              <=> (/\ fitems[k][ffield] # None
                   /\ fitems[k][ffield] # <<>>
                   /\ \E pat \in TrimmedPatterns(fpatterns) :
                         ContainsIgnoringCase(pat, fitems[k][ffield]))

\* a filter with patterns kept one record in upper case and dropped another
C8_Witness ==
    /\ FilterCalled
    /\ fpatterns = <<" ", "a">>
    /\ fitems = <<[description |-> <<"A">>], [description |-> <<>>]>>
    /\ ffield = "description"
    /\ fresult.value = <<[description |-> <<"A">>]>>

\* C9: with patterns None or "" the filter returns the records it was
\* given, all of them and in the same order, whatever the field name.
C9_NoPatternsIsIdentity ==
    (FilterCalled /\ (fpatterns = None \/ fpatterns = <<>>)) =>
        fresult = [exc |-> "none", value |-> fitems]

\* the filter was called with "" on records with and without the field
C9_Witness ==
    /\ FilterCalled
    /\ fpatterns = <<>>
    /\ fitems = <<[description |-> <<>>], [modality |-> <<"a">>]>>
    /\ fresult.value = fitems

\* ------------------------------------------------------- the download run
\* the steps of one exam's archive retrieval whose failure is a per-exam one
PerExamSteps == {"start", "has_started", "check", "zip", "iter_content"}

\* C1: a per-exam failure (a start response without a job identifier, a
\* network call failing during start, poll or stream) never ends the run.
C1_PerExamFailureContained == pc = "raised" => exc.at \notin PerExamSteps

\* C2: the resolver never returns the same path for two exams of one run.
C2_PathsPairwiseDistinct ==
    \A j, k \in 1..Len(paths) : j # k => paths[j] # paths[k]

\* C3: the status failed is terminal: no call for the job follows a poll
\* that reported it.
C3_FailedPollIsLast ==
    \A k \in 1..(Len(calls) - 1) : calls[k] # Call("check", "failed")

\* the polls of the job in progress
JobPolls == SelectSeq(calls, LAMBDA c : c.ep = "check")

\* the k-th poll of the job in progress reported started or completed
PollReady(k) == JobPolls[k].resp \in {"started", "completed"}

\* C4: the loop polls until the first started or completed and not once
\* more (every poll but the last was not ready, after a ready poll the loop
\* is left, after any other answer it polls again), and the stream call is
\* made only after the ready poll.
C4_PollsUntilReadyThenStreams ==
    LET n == Len(JobPolls)
    IN  /\ \A k \in 1..(n - 1) : ~PollReady(k)
        /\ (n > 0 /\ PollReady(n)) => pc \in {"stream", "write", "raised"}
        /\ (n > 0 /\ ~PollReady(n) /\ JobPolls[n].resp # "error")
              => pc = "has_started"
        /\ (pc \in {"stream", "write"} \/ "zip" \in Endpoints(calls))
              => /\ n > 0
                 /\ PollReady(n)
                 /\ \A j, k \in 1..Len(calls) :
                       (calls[j].ep = "zip" /\ calls[k].ep = "check") => k < j

\* the responses [pending, pending, started] were polled and the stream call
\* is next
C4_Witness ==
    /\ pc = "stream"
    /\ [k \in 1..Len(JobPolls) |-> JobPolls[k].resp]
         = <<"pending", "pending", "started">>

\* has_started met a start response without a job identifier
RefusalHandled ==
    /\ "reason" \in DOMAIN download_info
    /\ exc.at = "has_started"

\* the calls made after the start call of the job in progress
AfterStart ==
    LET at == CHOOSE k \in 1..Len(calls) : calls[k].ep = "start"
    IN  SubSeq(calls, at + 1, Len(calls))

\* C5: a start response without a job identifier leads to the listing its
\* reason names (profiles for "profile", projects for "project"), to no
\* poll, stream or second start call, and the run goes on to the next exam.
C5_RefusalDiagnosedRunContinues ==
    RefusalHandled =>
        /\ Contains(Profile, download_info["reason"])
              => "list-profiles" \in Endpoints(AfterStart)
        /\ Contains(Project, download_info["reason"])
              => "login" \in Endpoints(AfterStart)
        /\ Endpoints(AfterStart) \cap {"check", "zip", "start"} = {}
        /\ pc # "raised"

\* the name ends in .zip, in either case
EndsInZip(p) == EndsWith(Lower(Name(p)), DotZip)

\* the name is a non-empty stem followed by .zip, in either case
HasZipExtension(p) == EndsInZip(p) /\ Len(Name(p)) > Len(DotZip)

\* C6 as stated: with a base path ending in .zip and a single exam, the
\* resolved path is the base path, whatever exists there.
C6_SingleExamZipPathIsBase ==
    (Len(exams) = 1 /\ Len(paths) = 1 /\ HasZipExtension(args.output))
        => paths[1] = args.output

\* the path with _<n> put before its four-character extension
Indexed(p, n) ==
    LET name == Name(p)
        cut == Len(name) - Len(DotZip)
    IN  Parent(p) \o <<SubSeq(name, 1, cut) \o <<"_">> \o DecStr(n)
                        \o SubSeq(name, cut + 1, Len(name))>>

\* C6 as amended: with a base path whose name is a stem followed by .zip
\* and a single exam, the resolved path is the base path when nothing
\* exists there as the run starts, and the base path with _1 before the
\* extension when something does.
C6_SingleExamZipPath ==
    (Len(exams) = 1 /\ Len(paths) = 1 /\ HasZipExtension(args.output))
        => paths[1] = IF Exists(fs0.dirs, fs0.files, args.output)
                      THEN Indexed(args.output, 1)
                      ELSE args.output

\* a single exam was written beside an archive that was already there
C6_Witness ==
    /\ pc = "done"
    /\ Len(exams) = 1
    /\ args.output = <<NameAZip>>
    /\ <<NameAZip>> \in DOMAIN fs0.files
    /\ paths = << <<<<"a", "_", "1", ".", "z", "i", "p">>>> >>
    /\ paths[1] \in DOMAIN files
    /\ files[paths[1]] = Archive(1)

\* the name the k-th exam's archive is to have in a directory
ClaimedName(k) ==
    (IF exams[k]["accessionNumber"] # <<>>
     THEN exams[k]["accessionNumber"]
     ELSE ExamPrefix \o DecStr(k)) \o DotZip

\* C7: with several exams and a directory base path the resolved paths are
\* pairwise distinct, each directly inside the directory, the k-th named
\* after the accession number, or exam_<k> without one.
C7_DirectoryPathsNamedAndDistinct ==
    (/\ Len(exams) > 1
     /\ Len(paths) = Len(exams)
     /\ args.output # NoPath
     /\ ~EndsInZip(args.output))
    => /\ \A k \in 1..Len(paths) :
             paths[k] = args.output \o <<ClaimedName(k)>>
       /\ \A j, k \in 1..Len(paths) : j # k => paths[j] # paths[k]

\* the run is a download run in accessions-only mode, with an output base
\* that is given and is not an archive name
AccessionsMode ==
    /\ args.only_return_accessions
    /\ ~(args.list_projects \/ args.list_profiles)
    /\ args.output # NoPath
    /\ ~EndsInZip(args.output)

\* C10: in accessions-only mode no series, start, poll or stream call is
\* made and no archive is created, and once the run is over accessions.csv
\* holds what it held before followed by one record per exam, in order.
C10_AccessionsOnlyAppendsRecords ==
    LET output_csv == args.output \o <<AccessionsCsv>>
        before == IF output_csv \in DOMAIN fs0.files
                  THEN fs0.files[output_csv] ELSE <<>>
    IN  AccessionsMode =>
          /\ called \cap {"series", "start", "check", "zip"} = {}
          /\ \A q \in DOMAIN files \ {output_csv} :
                q \in DOMAIN fs0.files /\ files[q] = fs0.files[q]
          /\ (pc \in {"done", "raised"} /\ exams # <<>>)
                => /\ output_csv \in DOMAIN files
                   /\ files[output_csv]
                        = before \o [k \in 1..Len(exams) |->
                                       [kind |-> "csv", mrn |-> args.mrn,
                                        exam |-> exams[k]]]

\* ------------------------------------------------------- before the search
\* the command line asks for a listing, not for a download
Listing == args.list_projects \/ args.list_profiles

\* the command line names neither an accession number nor a patient
NoIdentifier ==
    /\ args.acc = None \/ args.acc = <<>>
    /\ args.mrn = None \/ args.mrn = <<>>

\* C11: a download run without accession number and patient identifier is
\* rejected before any network call: it never gets past parse_args, and
\* no endpoint is called.
C11_NoIdentifierRejectedBeforeNetwork ==
    (~Listing /\ NoIdentifier) =>
        /\ called = {}
        /\ calls = <<>>
        /\ pc \in {"parse_args", "raised"}
        /\ pc = "raised" => exc = [type |-> "ValueError", at |-> "parse_args"]

\* a download run without identifiers was rejected
C11_Witness ==
    /\ ~Listing
    /\ NoIdentifier
    /\ pc = "raised"
    /\ exc.type = "ValueError"
    /\ called = {}

\* the download run is past authenticate and holds no token
AuthenticateFailed ==
    /\ ~Listing
    /\ pc \notin {"parse_args", "main"}
    /\ exc.at # "parse_args"
    /\ ~jwt

\* C12: when authenticate fails (no credentials, a login response without
\* a token, a failing login request) the run ends there: the filesystem is
\* as the run found it and the search was never called.
C12_FatalFailureBeforeFileIO ==
    AuthenticateFailed =>
        /\ pc = "raised"
        /\ exc.at = "authenticate"
        /\ dirs = fs0.dirs
        /\ files = fs0.files
        /\ called \subseteq {"login"}

\* a login that returned no token ended a run that was to write into a
\* directory not yet there
C12_Witness ==
    /\ AuthenticateFailed
    /\ exc = [type |-> "KeyError", at |-> "authenticate"]
    /\ args.output = <<NameO>>
    /\ dirs = {}
    /\ calls = <<Call("login", "notoken")>>

\* ------------------------------------------------------------ the search
\* the messages the run has printed up to the first line of an exam filter
BeforeExamFilters ==
    LET first == { k \in 1..Len(log) :
                     log[k] \in {"available modality",
                                 "available description"} }
    IN  IF first = {} THEN log ELSE SubSeq(log, 1, Min(first) - 1)

\* C13: when the search returned more than one exam (more than one is
\* left after the filters, which only remove exams), the run has printed,
\* before the lines of the exam filters, an event that gives the count
\* and the identity of the exams found.
C13_ExamsFoundLoggedBeforeFilter ==
    Len(exams) > 1 =>
        \E k \in 1..Len(BeforeExamFilters) :
            BeforeExamFilters[k] = "exams found"

\* ------------------------------------------------------- the output file
\* C14: in a download run a step changes the files only when the stream
\* call of the exam in progress has been made and has returned, and it
\* changes the file at that exam's resolved path and no other: fetching
\* the series, skipping, starting and polling create no file and leave an
\* existing one as it is.
C14_FileOpenedOnlyAfterStream ==
    [][ (files' # files /\ pc # "accessions") =>
            /\ pc = "write"
            /\ calls # <<>>
            /\ calls[Len(calls)] = Call("zip", Ok)
            /\ DOMAIN files' = DOMAIN files \cup {exam_output_fp}
            /\ \A p \in DOMAIN files : p # exam_output_fp => files'[p] = files[p]
      ]_vars

\* the first exam was written in full, the second failed while polling and
\* has no file at its path
C14_Witness ==
    /\ pc = "raised"
    /\ exc.at = "check"
    /\ Len(paths) = 2
    /\ paths[1] \in DOMAIN files
    /\ files[paths[1]] = Archive(1)
    /\ paths[2] \notin DOMAIN files

\* --------------------------------------------------------- the empty exam
IsSkipped(o) == o.result = "skipped"

IsNoSeries(line) == line = "no series"

\* the number of exams skipped so far
SkippedCount == Len(SelectSeq(outcomes, IsSkipped))

\* the number of messages printed for an empty series set
NoSeriesCount == Len(SelectSeq(log, IsNoSeries))

\* C15: an exam whose filtered series set is empty is skipped: the start
\* call, the polls and the stream call are reached only with a non-empty
\* series set; the step that finds the set empty prints the message, makes
\* no call but the series call, changes no file and moves on to the next
\* exam; one message is printed for each exam skipped.
C15_EmptySeriesSkipsExam ==
    /\ [](pc \in {"start", "has_started", "stream", "write"} =>
             Len(series) > 0)
    /\ [](NoSeriesCount = SkippedCount)
    /\ [][ (pc = "loop" /\ i < Len(exams) /\ pc' # "raised"
                /\ Len(series') = 0) =>
               /\ pc' = "loop"
               /\ i' = i + 1
               /\ files' = files
               /\ called' \subseteq called \cup {"series"}
               /\ log'[Len(log')] = "no series"
               /\ outcomes' = Append(outcomes, Outcome("skipped", {"series"}))
         ]_vars

\* the first exam was skipped with nothing at its path, the second was
\* written
C15_Witness ==
    /\ pc = "done"
    /\ Len(outcomes) = 2
    /\ outcomes[1].result = "skipped"
    /\ outcomes[2].result = "written"
    /\ paths[1] \notin DOMAIN files
    /\ paths[2] \in DOMAIN files
    /\ NoSeriesCount = 1

\* ---------------------------------------------------- several exams, .zip
\* C16: with several exams and a base path that ends in .zip and does not
\* exist as the run starts, the first exam resolves to the base path and
\* the k-th exam (k > 1) to the base path with _<k> before the extension,
\* whatever became of the earlier exams.
C16_MultiExamZipPathsIndexed ==
    (/\ Len(exams) > 1
     /\ HasZipExtension(args.output)
     /\ ~Exists(fs0.dirs, fs0.files, args.output))
    => \A k \in 1..Len(paths) :
          paths[k] = IF k = 1 THEN args.output ELSE Indexed(args.output, k)

\* ------------------------------------------------------ the finished run
\* C17, for a run that has ended: when the loop is over without an error,
\* each exam that was downloaded (its filtered series set was not empty)
\* has a file of its own, holding its archive.
C17_OneFilePerDownloadedExam ==
    (pc = "done" /\ Len(outcomes) = Len(exams)) =>
        /\ \A k \in 1..Len(outcomes) :
               outcomes[k].result = "written" =>
                   /\ paths[k] \in DOMAIN files
                   /\ files[paths[k]] = Archive(k)
        /\ \A j, k \in 1..Len(outcomes) :
               (/\ j # k
                /\ outcomes[j].result = "written"
                /\ outcomes[k].result = "written") => paths[j] # paths[k]

\* ---------------------------------------------------------- no exam left
\* the search has returned and no exam is left after the exam filters
NoExamsLeft ==
    /\ ~Listing
    /\ jwt
    /\ pc \notin {"parse_args", "main", "search"}
    /\ exc.at # "search"
    /\ exams = <<>>

\* C18: when the search returns no exam, or the exam filters leave none,
\* the run ends at once and without an error, in either mode: the message
\* is the last thing printed, only the login and the search were called,
\* and the filesystem is as the run found it.
C18_NoExamsEndsRunEarly ==
    NoExamsLeft =>
        /\ pc = "done"
        /\ exc = NoExc
        /\ log # <<>>
        /\ log[Len(log)] = "no exams"
        /\ called = {"login", "query-data-source"}
        /\ paths = <<>>
        /\ dirs = fs0.dirs
        /\ files = fs0.files

\* an accessions-only run over an existing directory ended with no exam
\* left after a filter, and wrote no accessions.csv
C18_Witness ==
    /\ NoExamsLeft
    /\ pc = "done"
    /\ args.only_return_accessions
    /\ args.output = <<NameO>>
    /\ <<NameO>> \in dirs
    /\ Join(args.output, AccessionsCsv) \notin DOMAIN files
    /\ Len(log) > 1

\* ------------------------------------------------- the order of the filters
ExamFiltersCalled == pc = "exam_filtered"

\* every record has the field
AllHave(field_name) ==
    \A k \in 1..Len(fitems) : field_name \in DOMAIN fitems[k]

\* C19 as stated: the two exam filters give the same outcome in either
\* order, and the list they return holds records of the input, unchanged
\* and in the order of the input.
C19_ExamFiltersCommuteAlways ==
    ExamFiltersCalled =>
        /\ fboth.md = fboth.dm
        /\ fboth.md.exc = "none" => IsSubList(fboth.md.value, fitems)

\* C19 as amended: a list the filters return holds records of the input,
\* unchanged and in the order of the input; when every record has both
\* fields the two orders return the same list; a record without the field
\* of the filter applied first, with patterns given, raises KeyError, so
\* that one order can raise where the other returns a list.
C19_ExamFiltersCommute ==
    ExamFiltersCalled =>
        /\ fboth.md.exc = "none" => IsSubList(fboth.md.value, fitems)
        /\ fboth.dm.exc = "none" => IsSubList(fboth.dm.value, fitems)
        /\ (AllHave("modality") /\ AllHave("description")) =>
              /\ fboth.md.exc = "none"
              /\ fboth.dm = fboth.md
        /\ (fboth.md.exc = "none" /\ fboth.dm.exc = "none") =>
              fboth.md = fboth.dm
        /\ (Truthy(fmodality) /\ ~AllHave("modality")) =>
              fboth.md.exc = "KeyError"
        /\ (Truthy(fdescription) /\ ~AllHave("description")) =>
              fboth.dm.exc = "KeyError"

\* of two records with both fields, the two filters together dropped the
\* first and kept the second, in either order
C19_Witness ==
    /\ ExamFiltersCalled
    /\ Truthy(fmodality)
    /\ Truthy(fdescription)
    /\ Len(fitems) = 2
    /\ AllHave("modality")
    /\ AllHave("description")
    /\ fboth.md.value = <<fitems[2]>>
    /\ fboth.dm.value = <<fitems[2]>>
    /\ fitems[1] # fitems[2]

\* -------------------------------------------------------------- the wrapper
\* C20: given the path of a file of accession numbers, the wrapper makes
\* one launch per accession number of the file, and the k-th launch has
\* the k-th accession number as its accession argument.
C20_LaunchPassesListedAccession ==
    (pc \in {"launch", "wrapped"} /\ AccessionCsv \in DOMAIN files) =>
        /\ Len(launched) <= Len(accession_list)
        /\ pc = "wrapped" => Len(launched) = Len(accession_list)
        /\ \A k \in 1..Len(launched) :
               launched[k].accession = accession_list[k]

====
